---- MODULE Spec2Model ----
(***************************************************************************)
(* Model of the ezhdl simulation kernel: hardware values (ez_types.py),    *)
(* signals, their storage cells and the connection graph (ez_signal.py),   *)
(* entities and their processes (ez_entity.py) and the SimpleSim driver    *)
(* loop (ez_simplesim.py).                                                 *)
(***************************************************************************)
EXTENDS Integers, Sequences, FiniteSets, TLC

(***************************************************************************)
(* Bounds of the model.                                                    *)
(***************************************************************************)
\* number of Signal objects that are created
NSig == 3
\* largest pipeline depth (ppl) a signal is created with
MaxPpl == 2
\* number of library calls explored after the signals have been created
MaxOps == 4
\* depth at which the interpreter gives up a recursion (RecursionError)
RecursionLimit == 5

Sig == 1 .. NSig
\* Python's None, for a signal without driver
None == 0

(***************************************************************************)
(* Hardware values.  A value is a record: kind is the Python class ("int"  *)
(* is the builtin integer), nbits the width of Unsigned/Signed, val the    *)
(* scalar (_val), elems the elements of an Array.                          *)
(***************************************************************************)
PyInt(v) == [kind |-> "int", nbits |-> 0, val |-> v, elems |-> <<>>]

Integer(v) == [kind |-> "Integer", nbits |-> 0, val |-> v, elems |-> <<>>]

Pow2(n) == 2 ^ n

\* mask(hi, lo) = ((1 << (hi - lo)) - 1) << lo
mask(hi, lo) == (Pow2(hi - lo) - 1) * Pow2(lo)

\* constrain() of Integer, Wire, Unsigned and Signed, on a value whose
\* _val has just been stored
constrain(x) ==
    CASE x.kind = "Wire"     -> [x EXCEPT !.val = x.val % 2]
      [] x.kind = "Unsigned" -> [x EXCEPT !.val = x.val % Pow2(x.nbits)]
      [] x.kind = "Signed"   ->
            LET m == x.val % Pow2(x.nbits)
            IN  IF x.nbits = 0
                THEN [x EXCEPT !.val = m]
                ELSE IF m \div Pow2(x.nbits - 1) # 0
                THEN [x EXCEPT !.val = m - Pow2(x.nbits)]
                ELSE [x EXCEPT !.val = m]
      [] OTHER               -> x

\* Signed.constrain of a width 0 value: _val is masked to 0, and the
\* shift by nbits - 1 = -1 then raises ValueError (negative shift count)
constrain_raises(x) == x.kind = "Signed" /\ x.nbits = 0

Wire(v) == constrain([kind |-> "Wire", nbits |-> 1, val |-> v, elems |-> <<>>])

Unsigned(v, n) == constrain([kind |-> "Unsigned", nbits |-> n, val |-> v, elems |-> <<>>])

Signed(v, n) == constrain([kind |-> "Signed", nbits |-> n, val |-> v, elems |-> <<>>])

Array(es) == [kind |-> "Array", nbits |-> 0, val |-> 0, elems |-> es]

\* an object of a class derived from Record, its attributes being the
\* hardware values fs
Record(fs) == [kind |-> "Record", nbits |-> 0, val |-> 0, elems |-> fs]

IntegerKinds == {"Integer", "Wire", "Unsigned", "Signed"}

\* issubclass(k1, k2) over the classes of ez_types.py
IsSubclass(k1, k2) ==
    \/ k1 = k2
    \/ k2 = "Integer" /\ k1 \in IntegerKinds

\* isinstance(a, type(b))
IsInstance(a, b) == IsSubclass(a.kind, b.kind)

\* hasattr(obj, name): no class of ez_types.py defines _check_type or
\* _assign (Array defines check_type and assign, without underscore)
HasAttr(x, name) ==
    CASE name = "check_type" -> x.kind = "Array"
      [] name = "assign"     -> x.kind \in IntegerKinds \cup {"Array", "Record"}
      [] OTHER               -> FALSE

\* a == b as Python evaluates it, a and b being two objects: Integer.__eq__
\* compares val with int(other), list.__eq__ compares lengths and then the
\* elements; HwType and Record define no __eq__, so that a Record is equal
\* to itself only
PyEq(a, b) ==
    IF a.kind = "Record" \/ b.kind = "Record"
    THEN FALSE
    ELSE IF a.kind = "Array" /\ b.kind = "Array"
    THEN /\ Len(a.elems) = Len(b.elems)
         /\ \A i \in 1 .. Len(a.elems) : a.elems[i].val = b.elems[i].val
    ELSE IF a.kind = "Array" \/ b.kind = "Array"
    THEN FALSE
    ELSE a.val = b.val

\* a != b
PyNe(a, b) == ~PyEq(a, b)

\* Array.check_type(self, b), elements being scalars
check_type(a, b) ==
    IF b.kind # "Array" THEN FALSE
    ELSE IF Len(a.elems) # Len(b.elems) THEN FALSE
    ELSE IF ~IsInstance(a, b) THEN FALSE
    ELSE \A i \in 1 .. Len(a.elems) : IsInstance(a.elems[i], b.elems[i])

\* Integer.assign(self, other): val setter, then constrain
\* Integer.assign without the final constrain()
IntegerAssign_unconstrained(x, other) == [x EXCEPT !.val = other.val]

IntegerAssign(x, other) == constrain([x EXCEPT !.val = other.val])

\* Array.assign(self, other), after check_type has passed
ArrayAssign(a, b) ==
    [a EXCEPT !.elems = [i \in 1 .. Len(a.elems) |->
                            IntegerAssign(a.elems[i], b.elems[i])]]

(***************************************************************************)
(* State.                                                                  *)
(***************************************************************************)
VARIABLES
    \* Signal.instances: the registry, in creation order
    instances,
    \* class of each signal object: "Signal", "Input" or "Output"
    sigclass,
    \* Signal.content: the cell list a signal points to, named by the
    \* signal that created the list
    content,
    \* the cell lists: a sequence of SignalContent [_obj, _next, _pend]
    cells,
    \* Signal._driver and Signal._drives
    s_driver, s_drives,
    \* Signal._changed, _posedge, _negedge, _transition
    s_changed, s_posedge, s_negedge, s_transition,
    \* the last library call: its name, arguments and outcome
    last,
    \* whether some connect call has raised so far
    raised,
    \* number of library calls made so far, and the number explored
    nops, budget,
    \* SimpleSim's class attributes
    stop_simulation, time_ps, event_times, force_run, cycle_limit, vcd_path,
    \* the entities of the design, each named by what its _run is; the
    \* last one is the dut handed to run
    entities,
    \* the attributes of each entity that are entities, in the order of
    \* vars(self)
    attrs,
    \* the generator behind each entity's _run: whether it exists and where
    \* it is suspended
    proc,
    \* SimpleSim.run: where it is, the entity the pass resumes next, the
    \* local count, and the exception that left it
    run_pc, run_pos, count, run_err

sigvars == <<instances, sigclass, content, cells, s_driver, s_drives,
             s_changed, s_posedge, s_negedge, s_transition>>

simvars == <<stop_simulation, time_ps, event_times, force_run, cycle_limit,
             vcd_path, entities, attrs, proc, run_pc, run_pos, count, run_err>>

vars == <<instances, sigclass, content, cells, s_driver, s_drives,
          s_changed, s_posedge, s_negedge, s_transition, last, raised,
          nops, budget, simvars>>

\* SignalContent.__init__(obj)
SignalContent(obj) == [obj |-> obj, next |-> obj, pend |-> FALSE]

\* Signal.__init__(obj, ppl): ppl cells, each seeded with a copy of obj
NewContent(obj, ppl) == [i \in 1 .. ppl |-> SignalContent(obj)]

\* Signal.now: content[-1]._obj
now(cs, cont, s) == cs[cont[s]][Len(cs[cont[s]])].obj

\* content[0]._pend
pending(cs, cont, s) == cs[cont[s]][1].pend

Zero == PyInt(0)

\* posedge_eval reading the first cell of the pipeline instead of the last
posedge_eval_first(cs, cont, s) ==
    LET c == cs[cont[s]][1]
    IN  PyNe(c.next, Zero) /\ PyEq(c.obj, Zero)

\* Signal.posedge_eval, negedge_eval, changed_eval
posedge_eval(cs, cont, s) ==
    LET c == cs[cont[s]][Len(cs[cont[s]])]
    IN  PyNe(c.next, Zero) /\ PyEq(c.obj, Zero)

negedge_eval(cs, cont, s) ==
    LET c == cs[cont[s]][Len(cs[cont[s]])]
    IN  PyEq(c.next, Zero) /\ PyNe(c.obj, Zero)

changed_eval(cs, cont, s) ==
    LET c == cs[cont[s]][Len(cs[cont[s]])]
    IN  PyNe(c.next, c.obj)

(***************************************************************************)
(* Signal.update: the evaluate phase over the whole registry, then the     *)
(* commit phase over the whole registry.  The state of a pass is a record  *)
(* [cells, changed, posedge, negedge, transition, updated].                *)
(***************************************************************************)
\* lines 146-158 for one signal s, on the cells as they are in u
evaluate_one(u, cont, s) ==
    IF pending(u.cells, cont, s)
    THEN [u EXCEPT !.changed[s]    = changed_eval(u.cells, cont, s),
                   !.posedge[s]    = posedge_eval(u.cells, cont, s),
                   !.negedge[s]    = negedge_eval(u.cells, cont, s),
                   !.transition[s] = changed_eval(u.cells, cont, s)]
    ELSE [u EXCEPT !.changed[s] = FALSE,
                   !.posedge[s] = FALSE,
                   !.negedge[s] = FALSE]

\* number of cells c of a cell list with c._obj != c._next
RECURSIVE differing(_, _)
differing(cl, i) ==
    IF i > Len(cl) THEN 0
    ELSE (IF PyNe(cl[i].obj, cl[i].next) THEN 1 ELSE 0) + differing(cl, i + 1)

\* lines 161-175 for one signal s: hasattr(c._obj, "_assign") is false for
\* every value, so each cell takes a copy of its _next
commit_one(u, cont, s) ==
    IF pending(u.cells, cont, s)
    THEN LET cl == u.cells[cont[s]]
         IN  [u EXCEPT !.updated = u.updated + differing(cl, 1),
                       !.cells[cont[s]] =
                           [i \in 1 .. Len(cl) |->
                               [obj  |-> cl[i].next,
                                next |-> cl[i].next,
                                pend |-> IF i = 1 THEN FALSE ELSE cl[i].pend]]]
    ELSE u

\* the two loops over the registry; v is the pass after signal reg[i],
\* computed once and handed to the rest of the loop
RECURSIVE evaluate_all(_, _, _, _)
evaluate_all(u, cont, reg, i) ==
    IF i > Len(reg) THEN u
    ELSE CHOOSE r \in {evaluate_all(v, cont, reg, i + 1) :
                           v \in {evaluate_one(u, cont, reg[i])}} : TRUE

RECURSIVE commit_all(_, _, _, _)
commit_all(u, cont, reg, i) ==
    IF i > Len(reg) THEN u
    ELSE CHOOSE r \in {commit_all(v, cont, reg, i + 1) :
                           v \in {commit_one(u, cont, reg[i])}} : TRUE

\* a single loop that evaluates and commits signal by signal (what
\* Signal.update must not do)
RECURSIVE update_interleaved(_, _, _)
update_interleaved(u, cont, reg) ==
    IF reg = <<>> THEN u
    ELSE update_interleaved(
             commit_one(evaluate_one(u, cont, Head(reg)), cont, Head(reg)),
             cont, Tail(reg))

\* Signal.update()
update(u, cont, reg) == commit_all(evaluate_all(u, cont, reg, 1), cont, reg, 1)

\* Signal.clear_changes()
clear_changes(flag) == [s \in DOMAIN flag |-> FALSE]

(***************************************************************************)
(* Writes of the next value.  Each operator yields [cells, err].           *)
(***************************************************************************)
\* the nxt getter: reading nxt marks cell 0 pending
nxt_get(cs, cont, s) == [cs EXCEPT ![cont[s]][1].pend = TRUE]

\* the nxt setter without its isinstance test
nxt_set_unchecked(cs, cont, s, next_val) ==
    LET cl == cs[cont[s]]
    IN  [cells |->
            [cs EXCEPT ![cont[s]] =
                [i \in 1 .. Len(cl) |->
                    IF i = 1
                    THEN [cl[1] EXCEPT !.pend = TRUE, !.next = next_val]
                    ELSE [cl[i] EXCEPT !.next = cl[i - 1].obj]]],
         err |-> "none"]

\* the nxt setter, val being a value (a Signal argument is replaced by its
\* now by the caller of this operator)
nxt_set(cs, cont, s, next_val) ==
    LET cl   == cs[cont[s]]
        fail == \/ ~IsInstance(cl[1].obj, next_val)
                \/ /\ HasAttr(cl[1].obj, "_check_type")
                   /\ ~check_type(cl[1].obj, next_val)
    IN  IF fail
        THEN [cells |-> cs, err |-> "TypeIncompatibility"]
        ELSE [cells |->
                [cs EXCEPT ![cont[s]] =
                    [i \in 1 .. Len(cl) |->
                        IF HasAttr(cl[1].obj, "_assign")
                        THEN IF i = 1
                             THEN [cl[1] EXCEPT !.pend = TRUE,
                                                !.next = IntegerAssign(cl[1].next, next_val)]
                             ELSE [cl[i] EXCEPT !.next = IntegerAssign(cl[i].next, cl[i - 1].obj)]
                        ELSE IF i = 1
                             THEN [cl[1] EXCEPT !.pend = TRUE, !.next = next_val]
                             ELSE [cl[i] EXCEPT !.next = cl[i - 1].obj]]],
              err |-> "none"]

\* the body of the loop of HwType.assign for one attribute (lines 45-49):
\* an attribute that is a hardware value is assigned in place; for any
\* other attribute the copy of the source is bound to the loop variable
\* attr_value, and the attribute keeps its value
HwType_assign_attr(attr_value, other_attr) ==
    IF attr_value.kind # "int"
    THEN IntegerAssign(attr_value, other_attr)
    ELSE attr_value

\* x <<= other on a hardware value: HwType.__ilshift__ calls assign.
\* HwType.assign (a Record) assigns attribute by attribute from
\* vars(other), which raises TypeError for an int and KeyError for an
\* object without the attribute.
\* Integer.assign stores other's scalar and constrains, without any check;
\* Array.assign raises unless check_type(other) holds (len(other) itself
\* raises TypeError for an int or an Integer)
ilshift(x, other) ==
    IF x.kind = "Record"
    THEN IF other.kind = "int"
         THEN [val |-> x, err |-> "TypeError"]
         ELSE IF other.kind # "Record" \/ Len(other.elems) # Len(x.elems)
         THEN [val |-> x, err |-> "KeyError"]
         ELSE [val |-> [x EXCEPT !.elems = [i \in 1 .. Len(x.elems) |->
                                               HwType_assign_attr(x.elems[i], other.elems[i])]],
               err |-> "none"]
    ELSE IF x.kind = "Array"
    THEN IF other.kind \in {"int", "Integer"}
         THEN [val |-> x, err |-> "TypeError"]
         ELSE IF check_type(x, other)
         THEN [val |-> ArrayAssign(x, other), err |-> "none"]
         ELSE [val |-> x, err |-> "TypeIncompatibility"]
    ELSE [val |-> IntegerAssign(x, other),
          err |-> IF constrain_raises(x) THEN "ValueError" ELSE "none"]

\* s.nxt <<= other, which is also Signal.__ilshift__: the getter marks
\* cell 0 pending and returns _next, _next is assigned in place, and the
\* result is handed to the setter
nxt_ilshift(cs, cont, s, other) ==
    LET c1 == nxt_get(cs, cont, s)
        r  == ilshift(c1[cont[s]][1].next, other)
    IN  IF r.err # "none"
        THEN [cells |-> c1, err |-> r.err]
        ELSE nxt_set([c1 EXCEPT ![cont[s]][1].next = r.val], cont, s, r.val)

(***************************************************************************)
(* The connection graph.  A graph is a record [content, s_driver,          *)
(* s_drives, err]; vis is the set of signals that are attribute values of  *)
(* an object bound to self in a frame of the call stack.                   *)
(***************************************************************************)
\* _check_type with the isinstance test turned round: the driver's value
\* an instance of the follower's class
Signal_check_type_super(cs, g, f, b) ==
    LET fo == cs[g.content[f]][1].obj
        bo == cs[g.content[b]][1].obj
    IN  IF IsInstance(bo, fo)
        THEN IF HasAttr(fo, "_check_type") THEN check_type(fo, bo) ELSE TRUE
        ELSE FALSE

\* Signal._check_type(self, b), b being a Signal
Signal_check_type(cs, g, f, b) ==
    LET fo == cs[g.content[f]][1].obj
        bo == cs[g.content[b]][1].obj
    IN  IF IsInstance(fo, bo)
        THEN IF HasAttr(fo, "_check_type") THEN check_type(fo, bo) ELSE TRUE
        ELSE FALSE

\* "for i in b._drives: if i is self: present = True"
present(drives, f) == \E i \in 1 .. Len(drives) : drives[i] = f

RECURSIVE driver(_, _, _, _, _, _, _)
RECURSIVE drives_loop(_, _, _, _, _, _, _)

\* Signal.driver without the transitive repointing of the followers
Signal_driver_norec(cs, cls, g, f, b, vis, depth) ==
    IF g.s_driver[f] # None /\ g.s_driver[f] # b
    THEN [g EXCEPT !.err = "MultipleDriverViolation"]
    ELSE IF ~Signal_check_type(cs, g, f, b)
    THEN [g EXCEPT !.err = "TypeIncompatibility"]
    ELSE LET g1 == [g EXCEPT !.content[f]  = g.content[b],
                             !.s_driver[f] = b]
         IN  IF present(g1.s_drives[b], f)
             THEN g1
             ELSE [g1 EXCEPT !.s_drives[b] = Append(g1.s_drives[b], f)]

\* Signal.driver that records the connection without sharing the cells
Signal_driver_noalias(cs, cls, g, f, b, vis, depth) ==
    IF g.s_driver[f] # None /\ g.s_driver[f] # b
    THEN [g EXCEPT !.err = "MultipleDriverViolation"]
    ELSE IF ~Signal_check_type(cs, g, f, b)
    THEN [g EXCEPT !.err = "TypeIncompatibility"]
    ELSE LET g1 == [g EXCEPT !.s_driver[f] = b]
             g2 == IF present(g1.s_drives[b], f)
                   THEN g1
                   ELSE [g1 EXCEPT !.s_drives[b] = Append(g1.s_drives[b], f)]
         IN  drives_loop(cs, cls, g2, f, vis, depth, 1)

\* Signal.driver without the test for a second driver
Signal_driver_nocheck(cs, cls, g, f, b, vis, depth) ==
    IF ~Signal_check_type(cs, g, f, b)
    THEN [g EXCEPT !.err = "TypeIncompatibility"]
    ELSE LET g1 == [g EXCEPT !.content[f]  = g.content[b],
                             !.s_driver[f] = b]
             g2 == IF present(g1.s_drives[b], f)
                   THEN g1
                   ELSE [g1 EXCEPT !.s_drives[b] = Append(g1.s_drives[b], f)]
         IN  drives_loop(cs, cls, g2, f, vis, depth, 1)

\* Signal.driver(self=f, b) at stack depth `depth`, lines 206-223
Signal_driver(cs, cls, g, f, b, vis, depth) ==
    IF g.s_driver[f] # None /\ g.s_driver[f] # b
    THEN [g EXCEPT !.err = "MultipleDriverViolation"]
    ELSE IF ~Signal_check_type(cs, g, f, b)
    THEN [g EXCEPT !.err = "TypeIncompatibility"]
    ELSE LET g1 == [g EXCEPT !.content[f]  = g.content[b],
                             !.s_driver[f] = b]
             g2 == IF present(g1.s_drives[b], f)
                   THEN g1
                   ELSE [g1 EXCEPT !.s_drives[b] = Append(g1.s_drives[b], f)]
         IN  drives_loop(cs, cls, g2, f, vis, depth, 1)

\* "for i in self._drives: i.driver(self)": the list is read again at each
\* step, and the frame of Signal.driver(f) shows f._driver to the callee
drives_loop(cs, cls, g, f, vis, depth, idx) ==
    IF g.err # "none" \/ idx > Len(g.s_drives[f])
    THEN g
    ELSE drives_loop(cs, cls,
                     driver(cs, cls, g, g.s_drives[f][idx], f,
                            vis \cup {g.s_driver[f]}, depth + 1),
                     f, vis, depth, idx + 1)

\* a driver that does not look at the call stack
driver_undirected(cs, cls, g, f, b, vis, depth) ==
    IF g.err # "none" THEN g
    ELSE IF depth > RecursionLimit
    THEN [g EXCEPT !.err = "RecursionError"]
    ELSE Signal_driver(cs, cls, g, f, b, vis, depth)

\* f.driver(b), dispatched on the class of f: Input.driver (lines 431-440)
\* raises when f is visible from the call stack, Output.driver (lines
\* 448-458) raises when it is not, Signal.driver checks nothing
driver(cs, cls, g, f, b, vis, depth) ==
    IF g.err # "none" THEN g
    ELSE IF depth > RecursionLimit
    THEN [g EXCEPT !.err = "RecursionError"]
    ELSE IF cls[f] = "Input" /\ f \in vis
    THEN [g EXCEPT !.err = "DirectionViolation"]
    ELSE IF cls[f] = "Output" /\ f \notin vis
    THEN [g EXCEPT !.err = "DirectionViolation"]
    ELSE Signal_driver(cs, cls, g, f, b, vis, depth)

(***************************************************************************)
(* Signals under test and the calls made on them.                          *)
(***************************************************************************)
\* values written with "s.nxt = v"
DirectVals == {Wire(1)}

\* values written with "s.nxt <<= v" and "s <<= v"
ShiftVals == {PyInt(0), PyInt(1)}

\* a scalar target takes scalars only through <<=
ShiftAdmitted(x, v) == x.kind = "Array" \/ v.kind # "Array"

\* the signals held as attributes by the entities of the bench: an inner
\* entity holds signals 1 and 2, the top entity the others
Owned == {{1, 2}, Sig \ {1, 2}}

\* what a call stack can show: the signals of the entities whose code is
\* running (none for module level code)
Stacks == {UNION S : S \in SUBSET Owned}

NoCall == [op |-> "init", f |-> None, b |-> None, val |-> Zero,
           err |-> "none", updated |-> 0, hi |-> 0, lo |-> 0]

\* SimpleSim.cycle_limit as the class declares it
cycle_limit_default == 1000

\* an entity whose wrapper has not created its generator yet
\* fault is the exception that next() raised in the wrapper of procedure
\* and that ended the generator ("none" while there was none)
\* edge is the edge a generator suspended in posedge, negedge or anyedge
\* waits for ("none" otherwise)
NoProcedure == [st |-> "new", target |-> 0, waits |-> 0, edge |-> "none", fault |-> "none"]

\* class SimpleSim as declared, with cycle_limit and vcd_path as configured,
\* and a design made of the entities es, which hold one another as the
\* attributes at; run has not been called
SimpleSimClass(limit, path, es, at) ==
    /\ stop_simulation = TRUE
    /\ time_ps = 0
    /\ event_times = <<>>
    /\ force_run = FALSE
    /\ cycle_limit = limit
    /\ vcd_path = path
    /\ entities = es
    /\ attrs = at
    /\ proc = [p \in 1 .. Len(es) |-> NoProcedure]
    /\ run_pc = "idle"
    /\ run_pos = 1
    /\ count = 0
    /\ run_err = "none"

InitSignals(decl, n) ==
    /\ instances = [i \in 1 .. NSig |-> i]
    /\ sigclass = [s \in Sig |-> decl[s].cls]
    /\ content = [s \in Sig |-> s]
    /\ cells = [s \in Sig |-> NewContent(decl[s].seed, decl[s].ppl)]
    /\ s_driver = [s \in Sig |-> None]
    /\ s_drives = [s \in Sig |-> <<>>]
    /\ s_changed = [s \in Sig |-> FALSE]
    /\ s_posedge = [s \in Sig |-> FALSE]
    /\ s_negedge = [s \in Sig |-> FALSE]
    /\ s_transition = [s \in Sig |-> FALSE]
    /\ last = NoCall
    /\ raised = FALSE
    /\ nops = 0
    /\ budget = n

\* classes of the signals: all plain, or an Output, an Input and plain ones
ClassBenches ==
    { [s \in Sig |-> "Signal"],
      [s \in Sig |-> IF s = 1 THEN "Output" ELSE IF s = 2 THEN "Input" ELSE "Signal"],
      [s \in Sig |-> IF s = 1 THEN "Input" ELSE IF s = 2 THEN "Output" ELSE "Signal"] }

\* pipeline depths: all 1, or the first signal a pipeline
PplBenches ==
    { [s \in Sig |-> 1], [s \in Sig |-> IF s = 1 THEN MaxPpl ELSE 1] }

Init ==
    \E cls \in ClassBenches, ppl \in PplBenches :
        /\ InitSignals([s \in Sig |-> [cls |-> cls[s], seed |-> Wire(0), ppl |-> ppl[s]]],
                       MaxOps)
        /\ SimpleSimClass(cycle_limit_default, None, <<>>, <<>>)

\* f |= b, that is f.driver(b), with vis visible from the call stack
Connect(f, b, vis) ==
    LET g == driver(cells, sigclass,
                    [content |-> content, s_driver |-> s_driver,
                     s_drives |-> s_drives, err |-> "none"],
                    f, b, vis, 1)
    IN  /\ nops < budget
        /\ content' = g.content
        /\ s_driver' = g.s_driver
        /\ s_drives' = g.s_drives
        /\ last' = [NoCall EXCEPT !.op = "connect", !.f = f, !.b = b, !.err = g.err]
        /\ raised' = (raised \/ g.err # "none")
        /\ nops' = nops + 1
        /\ UNCHANGED <<simvars, budget, instances, sigclass, cells,
                       s_changed, s_posedge, s_negedge, s_transition>>

\* s.nxt = v
SetNxt(s, v) ==
    LET r == nxt_set(cells, content, s, v)
    IN  /\ nops < budget
        /\ cells' = r.cells
        /\ last' = [NoCall EXCEPT !.op = "set", !.f = s, !.val = v, !.err = r.err]
        /\ nops' = nops + 1
        /\ UNCHANGED <<simvars, budget, raised, instances, sigclass, content, s_driver, s_drives,
                       s_changed, s_posedge, s_negedge, s_transition>>

\* s.nxt <<= v and s <<= v
IlshiftNxt(s, v) ==
    LET r == nxt_ilshift(cells, content, s, v)
    IN  /\ nops < budget
        /\ ShiftAdmitted(cells[content[s]][1].next, v)
        /\ cells' = r.cells
        /\ last' = [NoCall EXCEPT !.op = "ilshift", !.f = s, !.val = v, !.err = r.err]
        /\ nops' = nops + 1
        /\ UNCHANGED <<simvars, budget, raised, instances, sigclass, content, s_driver, s_drives,
                       s_changed, s_posedge, s_negedge, s_transition>>

\* Signal.update()
Update ==
    LET u == update([cells |-> cells, changed |-> s_changed,
                     posedge |-> s_posedge, negedge |-> s_negedge,
                     transition |-> s_transition, updated |-> 0],
                    content, instances)
    IN  /\ nops < budget
        /\ cells' = u.cells
        /\ s_changed' = u.changed
        /\ s_posedge' = u.posedge
        /\ s_negedge' = u.negedge
        /\ s_transition' = u.transition
        /\ last' = [NoCall EXCEPT !.op = "update", !.updated = u.updated]
        /\ nops' = nops + 1
        /\ UNCHANGED <<simvars, budget, raised, instances, sigclass, content, s_driver, s_drives>>

\* Signal.clear_changes()
ClearChanges ==
    /\ nops < budget
    /\ s_changed' = clear_changes(s_changed)
    /\ s_posedge' = clear_changes(s_posedge)
    /\ s_negedge' = clear_changes(s_negedge)
    /\ s_transition' = clear_changes(s_transition)
    /\ last' = [NoCall EXCEPT !.op = "clear_changes"]
    /\ nops' = nops + 1
    /\ UNCHANGED <<simvars, budget, raised, instances, sigclass, content, cells, s_driver, s_drives>>

Next ==
    \/ \E f, b \in Sig : \E vis \in Stacks : Connect(f, b, vis)
    \/ \E s \in Sig : \E v \in DirectVals : SetNxt(s, v)
    \/ \E s \in Sig : \E v \in ShiftVals : IlshiftNxt(s, v)
    \/ Update
    \/ ClearChanges

Spec == Init /\ [][Next]_vars

(***************************************************************************)
(* Properties of the delta-cycle pass and of the connection graph.         *)
(***************************************************************************)
\* a step of the model that is a call of op
Called(op) == last'.op = op /\ nops' = nops + 1

\* the last cell of the cell list signal s points to
LastCell(cs, cont, s) == cs[cont[s]][Len(cs[cont[s]])]

\* no signal reaches itself through _driver references
RECURSIVE Reaches(_, _, _)
Reaches(f, d, n) ==
    /\ n > 0
    /\ s_driver[f] # None
    /\ (s_driver[f] = d \/ Reaches(s_driver[f], d, n - 1))

Acyclic == \A s \in Sig : ~Reaches(s, s, NSig)

\* the signal at the top of the driver chain of s
RECURSIVE Ultimate(_, _)
Ultimate(s, n) ==
    IF s_driver[s] = None \/ n = 0 THEN s ELSE Ultimate(s_driver[s], n - 1)

\* C1: in every call of Signal.update the flags of every registered signal
\* are computed from the cells as they were before any cell is committed in
\* that call, also for signals that share their cells through a connection.
C1_EvaluateBeforeCommit ==
    [][Called("update") =>
        \A s \in Sig :
            /\ s_changed'[s] = (pending(cells, content, s) /\ changed_eval(cells, content, s))
            /\ s_posedge'[s] = (pending(cells, content, s) /\ posedge_eval(cells, content, s))
            /\ s_negedge'[s] = (pending(cells, content, s) /\ negedge_eval(cells, content, s))]_vars

\* a pass has just changed the value of two signals that share their cells,
\* and both report the change
C1_Witness ==
    /\ last.op = "update"
    /\ last.updated > 0
    /\ \E s, t \in Sig : /\ s # t
                         /\ content[s] = content[t]
                         /\ s_changed[s] /\ s_changed[t]
                         /\ s_posedge[s] /\ s_posedge[t]

\* C2: after a pass, a signal that had a pending write has posedge iff its
\* pending value is not 0 and its current value was 0, negedge iff its
\* pending value is 0 and its current value was not 0, changed iff the two
\* differ (pending and current being those of the signal's last cell before
\* the commit); a signal without pending write has the three flags false.
C2_EdgeDetection ==
    [][Called("update") =>
        \A s \in Sig :
            LET c == LastCell(cells, content, s)
            IN  IF cells[content[s]][1].pend
                THEN /\ s_posedge'[s] = (c.next.val # 0 /\ c.obj.val = 0)
                     /\ s_negedge'[s] = (c.next.val = 0 /\ c.obj.val # 0)
                     /\ s_changed'[s] = (c.next.val # c.obj.val)
                ELSE /\ ~s_posedge'[s]
                     /\ ~s_negedge'[s]
                     /\ ~s_changed'[s]]_vars

\* a pass has computed a falling edge for one signal and no flag for a signal
\* that had no pending write
C2_Witness ==
    /\ last.op = "update"
    /\ \E s, t \in Sig : /\ s_negedge[s] /\ s_changed[s] /\ ~s_posedge[s]
                         /\ content[t] # content[s]
                         /\ ~s_changed[t]

\* C3: as long as every connect call has succeeded, every signal that has a
\* driver points to the very cell list of its driver and of its ultimate
\* driver, so that its current value is the ultimate driver's.
C3_FollowersShareStorage ==
    ~raised =>
        \A f \in Sig :
            s_driver[f] # None =>
                /\ content[f] = content[s_driver[f]]
                /\ content[f] = content[Ultimate(f, NSig)]
                /\ now(cells, content, f) = now(cells, content, Ultimate(f, NSig))

\* signal 2, which already had follower 3, has just been connected to driver
\* 1, and 3 now points to the cells of 1
C3_Witness ==
    /\ last.op = "connect" /\ last.f = 2 /\ last.b = 1 /\ last.err = "none"
    /\ s_driver[3] = 2 /\ s_driver[2] = 1
    /\ content[3] = 1 /\ content[1] = 1
    /\ ~raised

\* a pass has brought a written value from the ultimate driver 1 to the
\* indirect follower 3
C3_WitnessPass ==
    /\ last.op = "update" /\ last.updated > 0
    /\ s_driver[3] = 2 /\ s_driver[2] = 1
    /\ now(cells, content, 3).val = 1
    /\ ~raised

\* the three edge flags of f and d agree
SameFlags(chg, pos, neg, f, d) ==
    chg[f] = chg[d] /\ pos[f] = pos[d] /\ neg[f] = neg[d]

\* a pass takes the non-zero value staged for Output a, whose current value
\* is 0, to the Input b that follows a, with a rising edge on b
StagedValueArrives(a, b) ==
    LET v == cells[content[a]][1].next
    IN  (/\ pending(cells, content, a)
         /\ PyNe(v, Zero)
         /\ PyEq(now(cells, content, a), Zero))
        => /\ now(cells', content', b) = v
           /\ s_posedge'[b]

OutputToInput(a, b) ==
    /\ sigclass[a] = "Output" /\ sigclass[b] = "Input"
    /\ s_driver[b] = a
    /\ ~raised

Occurrences(drives, f) == Cardinality({i \in 1 .. Len(drives) : drives[i] = f})

GraphUnchanged ==
    /\ content' = content
    /\ s_driver' = s_driver
    /\ s_drives' = s_drives

C5_WitnessAgain ==
    /\ last.op = "connect" /\ last.err = "none" /\ ~raised
    /\ nops = 3
    /\ s_driver[last.f] = last.b
    /\ s_drives[last.b] = <<last.f>>
    /\ \E t \in Sig : s_driver[t] = last.f
    /\ Cardinality({s \in Sig : s_driver[s] # None}) = 2

(***************************************************************************)
(* Type rules of connect and of the writes: signals 1 and 2 are created    *)
(* with values of several classes and take values of several classes.      *)
(***************************************************************************)
TypeSeeds == {Wire(0), Integer(0), Unsigned(0, 2),
              Array(<<Wire(0)>>), Array(<<Wire(0), Wire(0)>>), Array(<<Integer(0)>>)}

TypeDirectVals == {PyInt(1), Integer(5), Wire(1), Unsigned(3, 2),
                   Array(<<Wire(1)>>), Array(<<Wire(1), Wire(1)>>)}

TypeShiftVals == {PyInt(1), PyInt(5), Integer(5), Signed(-1, 2),
                  Array(<<Wire(1)>>), Array(<<Wire(1), Wire(1)>>)}

\* the signals whose class of value varies
TypeSig == {1, 2}

\* calls explored from each of the initial states
TypeOps == MaxOps - 2

InitTypes ==
    \E seed \in [TypeSig -> TypeSeeds], ppl \in PplBenches :
        /\ InitSignals([s \in Sig |->
                           [cls  |-> "Signal",
                            seed |-> IF s \in TypeSig THEN seed[s] ELSE Wire(0),
                            ppl  |-> ppl[s]]],
                       TypeOps)
        /\ SimpleSimClass(cycle_limit_default, None, <<>>, <<>>)

NextTypes ==
    \/ \E f, b \in Sig : Connect(f, b, {})
    \/ \E s \in TypeSig :
          \E v \in TypeDirectVals \cup {now(cells, content, t) : t \in TypeSig} :
             SetNxt(s, v)
    \/ \E s \in TypeSig :
          \E v \in TypeShiftVals \cup {now(cells, content, t) : t \in TypeSig} :
             IlshiftNxt(s, v)
    \/ Update

SpecTypes == InitTypes /\ [][NextTypes]_vars

\* the value in cell 0 of the cell list of s
FirstObj(s) == cells[content[s]][1].obj

\* k1 is k2 or a subclass of it in ez_types.py, written out
SubclassOrSame ==
    {<<k, k>> : k \in {"int", "Integer", "Wire", "Unsigned", "Signed", "Array"}}
        \cup {<<k, "Integer">> : k \in {"Wire", "Unsigned", "Signed"}}

\* C6 as stated: a connect succeeds only when the class of the follower's
\* value is the class of the driver's value or a superclass of it, and it
\* raises TypeIncompatibility otherwise.
C6_FollowerSupertype ==
    [][Called("connect") =>
        LET fk == FirstObj(last'.f).kind
            bk == FirstObj(last'.b).kind
        IN  /\ last'.err = "none" => <<bk, fk>> \in SubclassOrSame
            /\ (s_driver[last'.f] \in {None, last'.b} /\ <<bk, fk>> \notin SubclassOrSame)
                  => last'.err = "TypeIncompatibility"]_vars

\* C6 amended: a connect succeeds only when the class of the follower's
\* value is the class of the driver's value or a subclass of it; otherwise a
\* follower free to take the driver raises TypeIncompatibility and the graph
\* stays as it was.
C6_FollowerSubtype ==
    [][Called("connect") =>
        LET fk == FirstObj(last'.f).kind
            bk == FirstObj(last'.b).kind
        IN  /\ last'.err = "none" => <<fk, bk>> \in SubclassOrSame
            /\ (s_driver[last'.f] \in {None, last'.b} /\ <<fk, bk>> \notin SubclassOrSame)
                  => /\ last'.err = "TypeIncompatibility"
                     /\ GraphUnchanged]_vars

\* a Wire follower has taken an Integer driver
C6_Witness ==
    /\ last.op = "connect" /\ last.err = "none"
    /\ last.f # last.b
    /\ FirstObj(last.b).kind = "Integer"
    /\ cells[last.f][1].obj.kind = "Wire"
    /\ content[last.f] = content[last.b]

\* an Integer follower has refused a Wire driver
C6_WitnessRefused ==
    /\ last.op = "connect" /\ last.err = "TypeIncompatibility"
    /\ FirstObj(last.f).kind = "Integer"
    /\ FirstObj(last.b).kind = "Wire"
    /\ content[last.f] # content[last.b]

\* the rule of Array.check_type, written out for arrays of scalars
ArraysCompatible(a, b) ==
    /\ Len(a.elems) = Len(b.elems)
    /\ \A i \in 1 .. Len(a.elems) : <<a.elems[i].kind, b.elems[i].kind>> \in SubclassOrSame

\* C7: a connect of two Array-valued signals whose lengths differ, or that
\* have a pair of incompatible elements, raises TypeIncompatibility and no
\* storage is shared.
C7_ArrayConnectChecked ==
    [][Called("connect") =>
        LET fo == FirstObj(last'.f)
            bo == FirstObj(last'.b)
        IN  (/\ fo.kind = "Array" /\ bo.kind = "Array"
             /\ ~ArraysCompatible(fo, bo))
            => /\ last'.err = "TypeIncompatibility"
               /\ GraphUnchanged]_vars

Reduced(x, n) ==
    CASE x.kind = "Wire"     -> [x EXCEPT !.val = n % 2]
      [] x.kind = "Unsigned" -> [x EXCEPT !.val = n % (2 ^ x.nbits)]
      [] x.kind = "Signed"   ->
            [x EXCEPT !.val = CHOOSE r \in -(2 ^ (x.nbits - 1)) .. 2 ^ (x.nbits - 1) - 1 :
                                 (r - n) % (2 ^ x.nbits) = 0]
      [] OTHER               -> [x EXCEPT !.val = n]

C8_WitnessReduced ==
    /\ last.op = "ilshift" /\ last.err = "none" /\ last.val = PyInt(5)
    /\ cells[content[last.f]][1].next \in {Wire(1), Unsigned(1, 2)}
    /\ cells[content[last.f]][1].pend

(***************************************************************************)
(* The simulator.  SimpleSim.run(dut) resumes every entity of the design,  *)
(* runs Signal.update and repeats until the time point has settled, then   *)
(* moves the clock to the next registered wake-up time.                    *)
(***************************************************************************)
\* number of entities of the design
NProc == 2

\* calls of wait explored in one generator
MaxWaits == 2

\* longest delay passed to wait
MaxDelay == 2

\* largest configured value of SimpleSim.cycle_limit
MaxCycleLimit == 2

\* Integer.__invert__
Invert(x) == Integer(- x.val - 1)

\* time_unit_to_mult(unit): the position of unit among the units gives the
\* multiplier (1000 for each unit passed over), and a unit that is not
\* among them raises
units == <<"ps", "ns", "us", "ms", "s">>

RECURSIVE unit_loop(_, _, _)
unit_loop(unit, i, passed) ==
    IF i > Len(units) THEN [mult |-> 0, err |-> "UnsupportedTimeUnit"]
    ELSE IF unit = units[i] THEN [mult |-> 1000 ^ passed, err |-> "none"]
    ELSE unit_loop(unit, i + 1, passed + 1)

time_unit_to_mult(unit) == unit_loop(unit, 1, 0)

\* Python's list.insert(index, x): x goes before position index (counted
\* from 0), an index beyond the end appends, a negative one counts from the
\* end and stops at the front
list_insert(l, index, x) ==
    LET fromEnd == IF index + Len(l) < 0 THEN 0 ELSE index + Len(l)
        k == IF index < 0 THEN fromEnd
             ELSE IF index > Len(l) THEN Len(l) ELSE index
    IN  SubSeq(l, 1, k) \o <<x>> \o SubSeq(l, k + 1, Len(l))

\* SimpleSim.schedule_event(time_ps): position i of the model is index
\* i - 1 of the list; line 130 passes the time as the index and the index
\* as the element
RECURSIVE schedule_loop(_, _, _)
schedule_loop(ev, t, i) ==
    IF i > Len(ev) THEN Append(ev, t)
    ELSE IF t = ev[i] THEN ev
    ELSE IF t < ev[i] THEN list_insert(ev, t, i - 1)
    ELSE schedule_loop(ev, t, i + 1)

schedule_event(ev, t) == schedule_loop(ev, t, 1)

\* the test that ends a pass of the convergence loop (lines 75-80): leave
\* the loop, raise, or go round again
loop_check_late(updated, force, cnt, limit) ==
    IF updated = 0 /\ ~force THEN "break"
    ELSE IF cnt > limit THEN "raise"
    ELSE "again"

\* a loop that is left after its first pass whatever was updated
loop_check_once(updated, force, cnt, limit) == "break"

loop_check(updated, force, cnt, limit) ==
    IF updated = 0 /\ ~force THEN "break"
    ELSE IF cnt >= limit THEN "raise"
    ELSE "again"

\* VCD.__init__: the file stays None unless a path is given
VCD(path) == IF path # None THEN path ELSE None

\* what the _run of an entity is:
\*   "gen"  a generator under @procedure that waits, and after each wait
\*          inverts the entity's signal:  yield from wait(d, u);
\*          self.s.nxt <<= ~self.s.now
\*   "inv"  a plain method:  self.s.nxt = ~self.s.now
\*   "buf"  a plain method:  self.s.nxt <<= self.x.now, x the signal of the
\*          next entity
EntityKinds == {"gen", "inv", "buf"}

\* the signal entity p writes, and the signal a "buf" entity reads
own(p) == p
src(p) == (p % NProc) + 1

\* the arguments a generator passes to wait
WaitCalls == {[d |-> d, u |-> "ps"] : d \in 1 .. MaxDelay}
                 \cup {[d |-> 1, u |-> "ns"], [d |-> 1, u |-> "h"]}

\* configured values of SimpleSim.cycle_limit and of SimpleSim.vcd_path
\* (None, or a path, written 1)
CycleLimits == 1 .. MaxCycleLimit
VcdPaths == {None, 1}

\* the designs: the dut holds each of the other entities in one attribute,
\* or it holds the first of them in a second attribute as well
Children == [i \in 1 .. NProc - 1 |-> i]
Hierarchies ==
    { [e \in 1 .. NProc |-> IF e = NProc THEN held ELSE <<>>] :
          held \in {Children, Children \o <<1>>} }

InitSim ==
    \E es \in [1 .. NProc -> EntityKinds], limit \in CycleLimits, path \in VcdPaths,
       at \in Hierarchies :
        /\ InitSignals([s \in Sig |-> [cls |-> "Signal", seed |-> Wire(0), ppl |-> 1]], 0)
        /\ SimpleSimClass(limit, path, es, at)

\* what the actions of the simulator leave alone
callvars == <<last, raised, nops, budget>>
graphvars == <<instances, sigclass, content, s_driver, s_drives>>
flagvars == <<s_changed, s_posedge, s_negedge, s_transition>>
confvars == <<cycle_limit, vcd_path, entities, attrs>>

\* Entity.run(e): run() of every attribute of e that is an Entity, in the
\* order of vars(e), then e._run(); the result is the sequence of entities
\* whose _run is called
RECURSIVE Entity_run(_, _)
RECURSIVE find_entities_loop(_, _, _)
find_entities_loop(at, e, i) ==
    IF i > Len(at[e]) THEN <<>>
    ELSE Entity_run(at, at[e][i]) \o find_entities_loop(at, e, i + 1)

Entity_run(at, e) == find_entities_loop(at, e, 1) \o <<e>>

\* the dut, and the entities that dut.run() resumes in one pass
dut == Len(entities)
run_order == IF dut = 0 THEN <<>> ELSE Entity_run(attrs, dut)

\* SimpleSim.run, lines 56-70: reset the design (Entity._reset does
\* nothing), clear the stop request, create the VCD and enter the loops
SimStart ==
    /\ run_pc = "idle"
    /\ stop_simulation' = FALSE
    /\ run_pc' = "run"
    /\ run_pos' = 1
    /\ count' = 0
    /\ UNCHANGED <<time_ps, event_times, force_run, proc, run_err, cells,
                   callvars, graphvars, flagvars, confvars>>

\* the entity that dut.run() resumes next
Resuming(p, kind) ==
    /\ run_pc = "run"
    /\ run_pos <= Len(run_order)
    /\ run_order[run_pos] = p
    /\ entities[p] = kind

\* the cells after "self.s.nxt <<= ~self.s.now" in entity p
Inverted(p) == nxt_ilshift(cells, content, own(p), Invert(now(cells, content, own(p)))).cells

\* a plain _run:  self.s.nxt = ~self.s.now;  an exception leaves run
ResumeInverter(p) ==
    LET r == nxt_set(cells, content, own(p), Invert(now(cells, content, own(p))))
    IN  /\ Resuming(p, "inv")
        /\ cells' = r.cells
        /\ run_err' = r.err
        /\ run_pc' = IF r.err = "none" THEN "run" ELSE "raised"
        /\ run_pos' = run_pos + 1
        /\ UNCHANGED <<stop_simulation, time_ps, event_times, force_run, proc, count,
                       callvars, graphvars, flagvars, confvars>>

\* a plain _run:  self.s.nxt <<= self.x.now
ResumeBuffer(p) ==
    LET r == nxt_ilshift(cells, content, own(p), now(cells, content, src(p)))
    IN  /\ Resuming(p, "buf")
        /\ cells' = r.cells
        /\ run_err' = r.err
        /\ run_pc' = IF r.err = "none" THEN "run" ELSE "raised"
        /\ run_pos' = run_pos + 1
        /\ UNCHANGED <<stop_simulation, time_ps, event_times, force_run, proc, count,
                       callvars, graphvars, flagvars, confvars>>

\* the edges a generator can wait for, and Signal.posedge(), negedge() and
\* anyedge() of signal s: the flags left by the last evaluate phase
EdgeKinds == {"posedge", "negedge", "anyedge"}

\* a level test in place of the edge flags: the signal is high
edge_holds_level(e, s) == now(cells, content, s).val # 0

edge_holds(e, s) ==
    IF e = "posedge" THEN s_posedge[s]
    ELSE IF e = "negedge" THEN s_negedge[s]
    ELSE s_posedge[s] \/ s_negedge[s]

\* a wrapper that creates the generator anew once it has ended
Proceeds_restart(p) ==
    \/ proc[p].st \in {"new", "done"}
    \/ proc[p].st = "waiting" /\ time_ps = proc[p].target
    \/ proc[p].st = "edge" /\ edge_holds(proc[p].edge, src(p))

\* whether next() runs code of the body: the generator is new, or it is
\* suspended in wait and the clock equals its target (line 158), or it is
\* suspended in posedge, negedge or anyedge and the signal has that edge
\* (lines 165, 172, 178)
Proceeds(p) ==
    \/ proc[p].st = "new"
    \/ proc[p].st = "waiting" /\ time_ps = proc[p].target
    \/ proc[p].st = "edge" /\ edge_holds(proc[p].edge, src(p))

\* the wrapper of procedure on a generator that has ended (next raises
\* StopIteration, which is discarded) or that yields again inside wait
ResumeSuspended(p) ==
    /\ Resuming(p, "gen")
    /\ ~Proceeds(p)
    /\ run_pos' = run_pos + 1
    /\ UNCHANGED <<stop_simulation, time_ps, event_times, force_run, proc, run_pc,
                   count, run_err, cells, callvars, graphvars, flagvars, confvars>>

\* the generator runs to the end of its body
ResumeToEnd(p) ==
    /\ Resuming(p, "gen")
    /\ Proceeds(p)
    /\ cells' = IF proc[p].st # "new" THEN Inverted(p) ELSE cells
    /\ proc' = [proc EXCEPT ![p].st = "done", ![p].edge = "none"]
    /\ run_pos' = run_pos + 1
    /\ UNCHANGED <<stop_simulation, time_ps, event_times, force_run, run_pc,
                   count, run_err, callvars, graphvars, flagvars, confvars>>

\* the generator runs to a call of wait(w.d, w.u), lines 151-157: an
\* exception raised by time_unit_to_mult ends the generator and is
\* discarded by the wrapper
ResumeToWait(p, w) ==
    LET m == time_unit_to_mult(w.u)
        target_time == time_ps + w.d * m.mult
    IN  /\ Resuming(p, "gen")
        /\ Proceeds(p)
        /\ proc[p].waits < MaxWaits
        /\ cells' = IF proc[p].st # "new" THEN Inverted(p) ELSE cells
        /\ IF m.err # "none"
           THEN /\ proc' = [proc EXCEPT ![p].st = "done", ![p].edge = "none",
                                        ![p].fault = m.err]
                /\ UNCHANGED <<event_times, force_run>>
           ELSE /\ event_times' = schedule_event(event_times, target_time)
                /\ force_run' = TRUE
                /\ proc' = [proc EXCEPT ![p] = [st |-> "waiting",
                                                target |-> target_time,
                                                waits |-> proc[p].waits + 1,
                                                edge |-> "none",
                                                fault |-> "none"]]
        /\ run_pos' = run_pos + 1
        /\ UNCHANGED <<stop_simulation, time_ps, run_pc, count, run_err,
                       callvars, graphvars, flagvars, confvars>>

\* the generator runs to a call of posedge, negedge or anyedge on the
\* signal of the next entity, lines 162-179: force one more pass and yield
ResumeToEdge(p, e) ==
    /\ Resuming(p, "gen")
    /\ Proceeds(p)
    /\ proc[p].waits < MaxWaits
    /\ cells' = IF proc[p].st # "new" THEN Inverted(p) ELSE cells
    /\ force_run' = TRUE
    /\ proc' = [proc EXCEPT ![p] = [st |-> "edge",
                                    target |-> 0,
                                    waits |-> proc[p].waits + 1,
                                    edge |-> e,
                                    fault |-> "none"]]
    /\ run_pos' = run_pos + 1
    /\ UNCHANGED <<stop_simulation, time_ps, event_times, run_pc, count, run_err,
                   callvars, graphvars, flagvars, confvars>>

\* lines 73-81: Signal.update, then the test of the pass
SimPass ==
    LET u == update([cells |-> cells, changed |-> s_changed,
                     posedge |-> s_posedge, negedge |-> s_negedge,
                     transition |-> s_transition, updated |-> 0],
                    content, instances)
        c == loop_check(u.updated, force_run, count, cycle_limit)
    IN  /\ run_pc = "run"
        /\ run_pos = Len(run_order) + 1
        /\ cells' = u.cells
        /\ s_changed' = u.changed
        /\ s_posedge' = u.posedge
        /\ s_negedge' = u.negedge
        /\ s_transition' = u.transition
        /\ run_pc' = IF c = "break" THEN "settled"
                     ELSE IF c = "raise" THEN "raised" ELSE "run"
        /\ run_err' = IF c = "raise" THEN "Potential cyclical assignment detected"
                      ELSE run_err
        /\ count' = IF c = "again" THEN count + 1 ELSE count
        /\ force_run' = IF c = "again" THEN FALSE ELSE force_run
        /\ run_pos' = IF c = "again" THEN 1 ELSE run_pos
        /\ UNCHANGED <<stop_simulation, time_ps, event_times, proc,
                       callvars, graphvars, confvars>>

\* lines 84-94 and the test of line 69: dump, clear the flags, then either
\* leave the loop or move the clock to event_times[0]; userinput may set
\* the stop request (F10 then F12)
SimAdvance(pressed) ==
    /\ run_pc = "settled"
    /\ s_changed' = clear_changes(s_changed)
    /\ s_posedge' = clear_changes(s_posedge)
    /\ s_negedge' = clear_changes(s_negedge)
    /\ s_transition' = clear_changes(s_transition)
    /\ IF Len(event_times) = 0
       THEN /\ run_pc' = "flush"
            /\ UNCHANGED <<time_ps, event_times, stop_simulation, count, run_pos>>
       ELSE /\ time_ps' = event_times[1]
            /\ event_times' = Tail(event_times)
            /\ stop_simulation' = pressed
            /\ run_pc' = IF pressed THEN "flush" ELSE "run"
            /\ count' = IF pressed THEN count ELSE 0
            /\ run_pos' = IF pressed THEN run_pos ELSE 1
    /\ UNCHANGED <<force_run, proc, run_err, cells, callvars, graphvars, confvars>>

\* lines 96-97: vcd.flush() is None.flush() when no path was given
SimFlush ==
    /\ run_pc = "flush"
    /\ run_pc' = IF VCD(vcd_path) = None THEN "raised" ELSE "ended"
    /\ run_err' = IF VCD(vcd_path) = None THEN "AttributeError" ELSE run_err
    /\ UNCHANGED <<stop_simulation, time_ps, event_times, force_run, proc, run_pos,
                   count, cells, callvars, graphvars, flagvars, confvars>>

NextSim ==
    \/ SimStart
    \/ \E p \in 1 .. NProc : ResumeInverter(p)
    \/ \E p \in 1 .. NProc : ResumeBuffer(p)
    \/ \E p \in 1 .. NProc : ResumeSuspended(p)
    \/ \E p \in 1 .. NProc : ResumeToEnd(p)
    \/ \E p \in 1 .. NProc : \E w \in WaitCalls : ResumeToWait(p, w)
    \/ SimPass
    \/ \E pressed \in BOOLEAN : SimAdvance(pressed)
    \/ SimFlush

SpecSim == InitSim /\ [][NextSim]_vars

\* run is sequential code: whenever it has a next step it takes it
SpecSimFair == InitSim /\ [][NextSim]_vars /\ WF_vars(NextSim)

\* the same designs with processes that also wait for edges
NextEdge ==
    \/ NextSim
    \/ \E p \in 1 .. NProc : \E e \in EdgeKinds : ResumeToEdge(p, e)

SpecEdge == InitSim /\ [][NextEdge]_vars

(***************************************************************************)
(* Properties of the convergence loop and of wait.                         *)
(***************************************************************************)
\* run is at the end of a pass: every entity has been resumed and
\* Signal.update comes next
PassEnds == run_pc = "run" /\ run_pos = Len(run_order) + 1

\* the value Signal.update returns at the end of the pass
Updated ==
    update([cells |-> cells, changed |-> s_changed, posedge |-> s_posedge,
            negedge |-> s_negedge, transition |-> s_transition, updated |-> 0],
           content, instances).updated

CycleError == "Potential cyclical assignment detected"

\* the step that ends a pass, when the loop gives up at pass number most:
\* count is the number of passes of this time point that did not settle, so
\* the pass that ends is pass number count + 1
PassOutcome(most) ==
    PassEnds =>
        IF Updated = 0 /\ ~force_run
        THEN run_pc' = "settled"
        ELSE IF count + 1 >= most
        THEN run_pc' = "raised" /\ run_err' = CycleError
        ELSE run_pc' = "run" /\ run_pos' = 1 /\ count' = count + 1 /\ ~force_run'

\* the design has an entity that rewrites a.nxt = ~a.now in every pass
HasFeedback == \E p \in 1 .. Len(entities) : entities[p] = "inv"

\* the loop of a time point is left, and with a feedback it is left by the
\* error
LoopIsLeft ==
    /\ (run_pc = "run") ~> (run_pc # "run")
    /\ (HasFeedback /\ run_pc = "run") ~> (run_pc = "raised" /\ run_err = CycleError)

\* C9 as stated: the convergence loop of a time point always ends; a pass
\* with updated == 0 and no forced iteration pending ends it, and when
\* cycle_limit passes have gone by without such a pass the run fails with
\* the cycle error; with a feedback a.nxt = ~a.now the loop always ends in
\* that error.
C9_FailsAfterCycleLimit ==
    /\ [][PassOutcome(cycle_limit)]_vars
    /\ LoopIsLeft

\* C9, amended: the convergence loop of a time point always ends; a pass
\* with updated == 0 and no forced iteration pending ends it, and the run
\* fails with the cycle error at pass number cycle_limit + 1 when neither
\* that pass nor an earlier one settled, so that a time point makes at most
\* cycle_limit + 1 passes; with a feedback a.nxt = ~a.now the loop always
\* ends in that error.
C9_ConvergenceLoopEnds ==
    /\ [][PassOutcome(cycle_limit + 1)]_vars
    /\ [](count <= cycle_limit)
    /\ LoopIsLeft

\* a feedback design has gone through cycle_limit + 1 passes and the run
\* has failed with the cycle error
C9_Witness ==
    /\ HasFeedback
    /\ run_pc = "raised"
    /\ run_err = CycleError
    /\ count = cycle_limit

\* a time point whose pass number cycle_limit + 1 settled
C9_WitnessLastPass ==
    /\ run_pc = "settled"
    /\ count = cycle_limit

\* whether t is one of the registered wake-up times
Registered(ev, t) == \E i \in 1 .. Len(ev) : ev[i] = t

\* the step in which the generator of entity p is resumed
ResumedGen(p) == Resuming(p, "gen") /\ run_pos' = run_pos + 1

\* the generator of entity p has called wait in this step
CalledWait(p) ==
    /\ ResumedGen(p)
    /\ proc'[p].st = "waiting"
    /\ proc'[p].waits = proc[p].waits + 1

\* C10: a process that calls wait(d, u) at time t registers t + d*mult(u)
\* as a wake-up time and forces one more pass; it stays suspended at every
\* resumption at which the clock differs from the target and proceeds at
\* the first one at which it equals the target; and unless the simulation
\* is stopped the clock reaches every target, so that run does not leave
\* its loop while a process is still waiting.
C10_WaitersReleased ==
    /\ [][\A p \in 1 .. NProc :
            /\ CalledWait(p) =>
                  /\ \E w \in WaitCalls :
                        /\ time_unit_to_mult(w.u).err = "none"
                        /\ proc'[p].target = time_ps + w.d * time_unit_to_mult(w.u).mult
                  /\ Registered(event_times', proc'[p].target)
                  /\ force_run'
            /\ (ResumedGen(p) /\ proc[p].st = "waiting" /\ time_ps # proc[p].target)
                  => proc'[p] = proc[p]
            /\ (ResumedGen(p) /\ proc[p].st = "waiting" /\ time_ps = proc[p].target)
                  => proc'[p] # proc[p]]_vars
    /\ []((run_pc = "flush" /\ ~stop_simulation)
            => \A p \in 1 .. NProc : proc[p].st # "waiting")

(***************************************************************************)
(* Properties of the wake-up times and of the clock.                       *)
(***************************************************************************)
\* the targets of the processes that are suspended in wait
WaitedFor == {proc[p].target : p \in {q \in 1 .. Len(entities) : proc[q].st = "waiting"}}

\* the elements of event_times
EventTimes == {event_times[i] : i \in 1 .. Len(event_times)}

\* C11: event_times is strictly increasing, and it holds exactly the times
\* that were scheduled and that no time advance has consumed yet: every
\* target a process still waits for is in it unless the clock has just been
\* moved to it, and every time in it is a target some process waits for.
C11_EventTimesAreTheScheduledTimes ==
    /\ \A i, j \in 1 .. Len(event_times) : i < j => event_times[i] < event_times[j]
    /\ WaitedFor \subseteq EventTimes \cup {time_ps}
    /\ EventTimes \subseteq WaitedFor

\* the step of run that moves the clock
TimeAdvance == run_pc = "settled" /\ Len(event_times) > 0

\* C12: a time advance sets time_ps to the least pending wake-up time and
\* removes it from event_times, and over a whole run (every wait has a
\* duration of at least 0) time_ps never decreases.
C12_ClockNeverGoesBack ==
    [][/\ TimeAdvance =>
            /\ \A t \in EventTimes : time_ps' <= t
            /\ time_ps' \in EventTimes
            /\ EventTimes' = EventTimes \ {time_ps'}
       /\ time_ps' >= time_ps]_vars

(***************************************************************************)
(* Properties of the processes.                                            *)
(***************************************************************************)
\* number of times the _run of entity e is called in one pass
CallsInPass(e) == Cardinality({i \in 1 .. Len(run_order) : run_order[i] = e})

\* the entities that e holds as attributes
HeldBy(e) == {attrs[e][i] : i \in 1 .. Len(attrs[e])}

\* every entity that e holds has been resumed before each call of e._run
ChildrenFirst(e) ==
    \A i \in 1 .. Len(run_order) :
        run_order[i] = e => \A c \in HeldBy(e) : \E j \in 1 .. i - 1 : run_order[j] = c

\* C13: the generator of an entity is created at most once, the first time
\* the entity is resumed, and is never started again; and every pass of the
\* convergence loop resumes every entity of the design exactly once, the
\* entities an entity holds before the entity itself.
C13_EachProcessOncePerPass ==
    /\ [][\A p \in 1 .. NProc :
            /\ (ResumedGen(p) /\ proc[p].st = "new") => proc'[p].st # "new"
            /\ proc[p].st # "new" =>
                  /\ proc'[p].st # "new"
                  /\ proc'[p].waits >= proc[p].waits
            /\ proc'[p] # proc[p] => ResumedGen(p)]_vars
    /\ [](PassEnds => \A e \in 1 .. NProc : CallsInPass(e) = 1 /\ ChildrenFirst(e))

\* the step in which entity p is resumed (its _run is called by Entity.run)
Resumed(p) ==
    /\ run_pc = "run"
    /\ run_pos <= Len(run_order)
    /\ run_order[run_pos] = p
    /\ run_pos' = run_pos + 1

\* entity p has been resumed in the current pass
ResumedInPass(p) == \E i \in 1 .. run_pos - 1 : i <= Len(run_order) /\ run_order[i] = p

C14_WitnessOthers ==
    \E p, q \in 1 .. NProc :
        /\ entities[p] = "gen" /\ entities[q] = "gen"
        /\ proc[p].st = "done" /\ proc[p].fault = "none" /\ proc[p].waits = 0
        /\ proc[q].st = "done" /\ proc[q].waits >= 1
        /\ time_ps > 0

\* the exception that the _run of entity p raises in this step ("none" when
\* it raises none)
StepFault(p) ==
    IF entities[p] = "inv"
    THEN nxt_set(cells, content, own(p), Invert(now(cells, content, own(p)))).err
    ELSE IF entities[p] = "buf"
    THEN nxt_ilshift(cells, content, own(p), now(cells, content, src(p))).err
    ELSE IF proc'[p].fault # proc[p].fault THEN proc'[p].fault
    ELSE "none"

\* C15: a fault raised inside the step of a process leaves SimpleSim.run
\* with that fault: no fault is discarded while the run carries on.
C15_FaultsSurface ==
    [][\A p \in 1 .. NProc :
          (Resumed(p) /\ StepFault(p) # "none") =>
              /\ run_pc' = "raised"
              /\ run_err' = StepFault(p)]_vars

\* the generator of entity p has called posedge, negedge or anyedge in this
\* step
CalledEdge(p) ==
    /\ ResumedGen(p)
    /\ proc'[p].st = "edge"
    /\ proc'[p].waits = proc[p].waits + 1

\* the generator of entity p is resumed while it is suspended on an edge
ResumedOnEdge(p) == ResumedGen(p) /\ proc[p].st = "edge"

\* C16: a process that suspends on posedge(s), negedge(s) or anyedge(s)
\* forces one more pass; resumed after an evaluate phase that did not
\* compute the edge for s it stays suspended; resumed after an evaluate
\* phase that computed it, it proceeds, and that evaluate phase took place
\* after the process suspended (one edge releases one wait); and a time
\* point does not end while a process waits for an edge that the last
\* evaluate phase computed.
C16_EdgeWaitersReleased ==
    /\ [][\A p \in 1 .. NProc :
            /\ CalledEdge(p) => force_run'
            /\ Resumed(p) => UNCHANGED flagvars
            /\ (ResumedOnEdge(p) /\ ~edge_holds(proc[p].edge, src(p)))
                   => UNCHANGED <<proc, cells, event_times, force_run>>
            /\ (ResumedOnEdge(p) /\ edge_holds(proc[p].edge, src(p)))
                   => /\ proc'[p] # proc[p]
                      /\ cells' = Inverted(p)
                      /\ ~ResumedInPass(p)]_vars
    /\ [](run_pc = "settled" =>
             \A p \in 1 .. NProc :
                 (entities[p] = "gen" /\ proc[p].st = "edge")
                     => ~edge_holds(proc[p].edge, src(p)))

\* C17: within a time point the transition flag of a signal, once set by
\* an evaluate phase, stays set through the later passes whatever is
\* written to the signal, and only clear_changes at the time advance clears
\* it; and a pass that changes the current value of a signal sets the
\* flag, so that at the dump of the time point the flag of every signal
\* whose value changed is set.
C17_TransitionIsSticky ==
    /\ [][\A s \in Sig :
            (s_transition[s] /\ run_pc # "settled") => s_transition'[s]]_vars
    /\ [][\A s \in Sig :
            now(cells', content', s) # now(cells, content, s) => s_transition'[s]]_vars

(***************************************************************************)
(* Properties of the registry and of the directions.                       *)
(***************************************************************************)
\* the orderings of the registry reg
Orderings(reg) ==
    {[i \in 1 .. Len(reg) |-> reg[f[i]]] : f \in Permutations(1 .. Len(reg))}

\* the signals as Signal.update() finds them
Staged ==
    [cells |-> cells, changed |-> s_changed, posedge |-> s_posedge,
     negedge |-> s_negedge, transition |-> s_transition, updated |-> 0]

\* C18: whatever the order of the registry, Signal.update() on the same
\* staged writes gives the same cells, the same flags and the same count
\* of updates; the passes of a time point being the same, so is the
\* fixpoint they reach.
C18_RegistryOrderIrrelevant ==
    \A reg \in Orderings(instances) :
        update(Staged, content, reg) = update(Staged, content, instances)

\* an update has committed writes to signals that share their cells, and
\* has set the flags of a follower
C18_Witness ==
    /\ last.op = "update"
    /\ last.updated >= 1
    /\ \E f \in Sig :
          /\ s_driver[f] # None
          /\ s_changed[f]
          /\ s_changed[s_driver[f]]

\* the step is the call f.driver(b) made with the call stack showing vis
ConnectCalled(f, b, vis) ==
    /\ Called("connect")
    /\ last'.f = f
    /\ last'.b = b
    /\ Connect(f, b, vis)

\* C19: a connect on an Input succeeds only when no entity whose code is
\* running holds the Input (the call comes from outside its entity), a
\* connect on an Output only when one does (the call comes from inside);
\* every other connect on an Input or Output fails with DirectionViolation,
\* whatever else is wrong with it.
C19_DirectionRule ==
    [][\A f, b \in Sig : \A vis \in Stacks :
          ConnectCalled(f, b, vis) =>
              /\ sigclass[f] = "Input" =>
                    /\ last'.err = "none" => f \notin vis
                    /\ f \in vis => last'.err = "DirectionViolation"
              /\ sigclass[f] = "Output" =>
                    /\ last'.err = "none" => f \in vis
                    /\ f \notin vis => last'.err = "DirectionViolation"]_vars

\* an Input and an Output have both been connected
C19_Witness ==
    \E i, o \in Sig :
        /\ sigclass[i] = "Input" /\ s_driver[i] # None
        /\ sigclass[o] = "Output" /\ s_driver[o] # None

\* a connect on an Output has been refused
C19_WitnessRefused ==
    /\ last.op = "connect"
    /\ sigclass[last.f] = "Output"
    /\ last.err = "DirectionViolation"

(***************************************************************************)
(* Signals that hold a Record, an Array or an Unsigned, written with equal *)
(* and with different values.                                              *)
(***************************************************************************)
\* the Records have a hardware attribute and an attribute that is an int
RecordSeeds == {Record(<<Unsigned(0, 2), PyInt(0)>>), Array(<<Wire(0), Wire(0)>>),
                Unsigned(0, 2)}

RecordVals == {Record(<<Unsigned(0, 2), PyInt(0)>>), Record(<<Unsigned(1, 2), PyInt(1)>>),
               Array(<<Wire(0), Wire(0)>>), Array(<<Wire(1), Wire(0)>>),
               Unsigned(0, 2), Unsigned(1, 2)}

InitRecords ==
    \E seed \in [TypeSig -> RecordSeeds], ppl \in PplBenches :
        /\ InitSignals([s \in Sig |->
                           [cls  |-> "Signal",
                            seed |-> IF s \in TypeSig THEN seed[s] ELSE Wire(0),
                            ppl  |-> ppl[s]]],
                       TypeOps + 1)
        /\ SimpleSimClass(cycle_limit_default, None, <<>>, <<>>)

NextRecords ==
    \/ \E s \in TypeSig : \E v \in RecordVals : SetNxt(s, v)
    \/ \E s \in TypeSig : \E v \in RecordVals : IlshiftNxt(s, v)
    \/ Update

SpecRecords == InitRecords /\ [][NextRecords]_vars

\* a and b have the same value: the same scalar and, element by element or
\* attribute by attribute, the same scalars
SameValue(a, b) ==
    /\ (a.kind = "Record") = (b.kind = "Record")
    /\ (a.kind = "Array") = (b.kind = "Array")
    /\ a.val = b.val
    /\ Len(a.elems) = Len(b.elems)
    /\ \A i \in 1 .. Len(a.elems) : a.elems[i].val = b.elems[i].val

\* the cells with a pending write whose next value is not their value
RECURSIVE ValueUpdates(_)
ValueUpdates(c) ==
    IF c > NSig THEN 0
    ELSE (IF cells[c][1].pend /\ (\E s \in Sig : content[s] = c)
          THEN Cardinality({i \in 1 .. Len(cells[c]) :
                               ~SameValue(cells[c][i].obj, cells[c][i].next)})
          ELSE 0) + ValueUpdates(c + 1)

\* C20: Signal.update() detects changes by the value, whatever its kind: a
\* signal with a pending write is changed exactly when the value written
\* differs from its value, and updated counts exactly the cells whose value
\* differs; a write of an equal value is no change and is not counted.
C20_ChangeIsByValue ==
    [][Called("update") =>
          /\ \A s \in Sig :
                pending(cells, content, s) =>
                    (s_changed'[s] <=>
                         ~SameValue(LastCell(cells, content, s).next,
                                    LastCell(cells, content, s).obj))
          /\ last'.updated = ValueUpdates(1)]_vars

(***************************************************************************)
(* Properties of the hardware values.                                      *)
(***************************************************************************)
\* the _next of the first cell of signal s
FirstNext(cs, cont, s) == cs[cont[s]][1].next

\* the step is "s.nxt <<= v" with a Record v on a signal s that holds a
\* Record, and it raised nothing
RecordAssigned(s, v) ==
    /\ Called("ilshift")
    /\ last'.f = s
    /\ last'.val = v
    /\ last'.err = "none"
    /\ v.kind = "Record"
    /\ FirstNext(cells, content, s).kind = "Record"

\* C21: after a Record has been assigned from a Record, every attribute of
\* the destination equals the attribute of the same name of the source,
\* a hardware attribute by assignment in place and any other attribute by
\* a copy.
C21_RecordAssignCopiesEveryField ==
    [][\A s \in Sig : \A v \in RecordVals :
          RecordAssigned(s, v) =>
              \A i \in 1 .. Len(v.elems) :
                  FirstNext(cells', content', s).elems[i].val = v.elems[i].val]_vars

\* ---------------------------------------------------------------------------
\* Unsigned and Signed values: slices and resizing (ez_types.py)
\* ---------------------------------------------------------------------------

\* largest width and largest magnitude of a written integer of the value bench
MaxBits == 2
MaxVal == 5

\* a & m of Python's unbounded two's complement integers, for m >= 0
RECURSIVE bit_and(_, _)
bit_and(a, m) ==
    IF m = 0
    THEN 0
    ELSE (a % 2) * (m % 2) + 2 * bit_and(a \div 2, m \div 2)

\* Integer.__getitem__(slice(hi, lo)) for hi, lo >= 0: the masked bits
\* shifted down, handed to the constructor of the value's own class with
\* nbits = hi - lo (which, for a Signed, sign-extends them, and raises for
\* nbits = 0)
getitem(x, hi, lo) ==
    IF lo > hi
    THEN [val |-> x, err |-> "Exception"]
    ELSE LET val == bit_and(x.val, mask(hi, lo)) \div Pow2(lo)
             ret == [x EXCEPT !.val = val, !.nbits = hi - lo]
         IN  [val |-> constrain(ret),
              err |-> IF constrain_raises(ret) THEN "ValueError" ELSE "none"]

\* Integer.__setitem__(slice(hi, lo), value) for hi, lo >= 0
setitem(x, hi, lo, value) ==
    IF lo > hi
    THEN [val |-> x, err |-> "Exception"]
    ELSE LET m       == mask(hi, lo)
             cleared == x.val - bit_and(x.val, m)
             stored  == cleared + bit_and(value * Pow2(lo), m)
         IN  [val |-> constrain([x EXCEPT !.val = stored]),
              err |-> IF constrain_raises(x) THEN "ValueError" ELSE "none"]

\* Integer.__getitem__(key) for an index key >= 0: hi = key + 1, lo = key
getitem_index(x, key) == getitem(x, key + 1, key)

\* Integer.__setitem__(key, value) for an index key >= 0: hi = key and
\* lo = key (lines 282-283), so that mask(hi, lo) is 0
setitem_index(x, key, value) == setitem(x, key, key, value)

\* Integer.val = v (the property setter): stores the scalar, no constrain
val_set(x, v) == [x EXCEPT !.val = v]

\* Unsigned.bits / Signed.bits
bits(x, nbits) ==
    LET r == [x EXCEPT !.nbits = nbits]
    IN  [val |-> constrain(r),
         err |-> IF constrain_raises(r) THEN "ValueError" ELSE "none"]

\* int(math.ceil(math.log2(spn))) for spn >= 2
ceil_log2(spn) == CHOOSE k \in 1 .. 30 : Pow2(k) >= spn /\ Pow2(k - 1) < spn

\* Unsigned.span / Signed.span for spn >= 0
span(x, spn) ==
    IF spn = 0 THEN bits(x, 0)
    ELSE IF spn = 1 THEN bits(x, 1)
    ELSE bits(x, ceil_log2(spn))

\* Unsigned.upto / Signed.upto
upto(x, val) ==
    IF val >= 0 THEN span(x, val + 1)
    ELSE IF x.kind = "Unsigned" THEN [val |-> x, err |-> "Exception"]
    ELSE span(x, -2 * val)

Resizings == {"bits", "span", "upto"}

resize(x, how, n) ==
    CASE how = "bits" -> bits(x, n)
      [] how = "span" -> span(x, n)
      [] how = "upto" -> upto(x, n)

sigframe == <<simvars, budget, raised, instances, sigclass, content, s_driver, s_drives,
              s_changed, s_posedge, s_negedge, s_transition>>

\* s.nxt.val = v: the getter marks cell 0 pending, the scalar is stored
\* into _next, and the setter of nxt is not called
NxtSetVal(s, v) ==
    LET c1 == nxt_get(cells, content, s)
    IN  /\ nops < budget
        /\ cells' = [c1 EXCEPT ![content[s]][1].next = val_set(@, v)]
        /\ last' = [NoCall EXCEPT !.op = "val", !.f = s, !.val = PyInt(v)]
        /\ nops' = nops + 1
        /\ UNCHANGED sigframe

\* s.nxt[hi:lo] = y: the getter marks cell 0 pending, _next is written
\* in place, and the setter of nxt is not called
NxtSetItem(s, hi, lo, y) ==
    LET c1 == nxt_get(cells, content, s)
        r  == setitem(c1[content[s]][1].next, hi, lo, y)
    IN  /\ nops < budget
        /\ cells' = [c1 EXCEPT ![content[s]][1].next = r.val]
        /\ last' = [NoCall EXCEPT !.op = "nxt_setitem", !.f = s, !.val = PyInt(y),
                                  !.hi = hi, !.lo = lo, !.err = r.err]
        /\ nops' = nops + 1
        /\ UNCHANGED sigframe

\* s.nxt[key] = b: the getter marks cell 0 pending, and _next takes the
\* index write in place
NxtSetIndex(s, key, b) ==
    LET c1 == nxt_get(cells, content, s)
        r  == setitem_index(c1[content[s]][1].next, key, b)
    IN  /\ nops < budget
        /\ cells' = [c1 EXCEPT ![content[s]][1].next = r.val]
        /\ last' = [NoCall EXCEPT !.op = "nxt_setindex", !.f = s, !.val = PyInt(b),
                                  !.hi = key, !.lo = key, !.err = r.err]
        /\ nops' = nops + 1
        /\ UNCHANGED sigframe

\* s.nxt.bits(n), s.nxt.span(n), s.nxt.upto(n)
NxtResize(s, how, n) ==
    LET c1 == nxt_get(cells, content, s)
        r  == resize(c1[content[s]][1].next, how, n)
    IN  /\ nops < budget
        /\ cells' = [c1 EXCEPT ![content[s]][1].next = r.val]
        /\ last' = [NoCall EXCEPT !.op = how, !.f = s, !.val = PyInt(n), !.err = r.err]
        /\ nops' = nops + 1
        /\ UNCHANGED sigframe

\* s[hi:lo] = y, Signal.__setitem__: self.now.__setitem__(key, value), on
\* the _obj of the last cell
SigSetItem(s, hi, lo, y) ==
    LET cl == cells[content[s]]
        r  == setitem(cl[Len(cl)].obj, hi, lo, y)
    IN  /\ nops < budget
        /\ cells' = [cells EXCEPT ![content[s]][Len(cl)].obj = r.val]
        /\ last' = [NoCall EXCEPT !.op = "setitem", !.f = s, !.val = PyInt(y),
                                  !.hi = hi, !.lo = lo, !.err = r.err]
        /\ nops' = nops + 1
        /\ UNCHANGED sigframe

IntVals == (0 - MaxVal) .. MaxVal
Widths == 0 .. MaxBits
IntOps == 2

\* the values the constructors give: Signed(v, nbits = 0) raises ValueError
IntSeeds ==
    {Unsigned(v, n) : v \in IntVals, n \in Widths}
        \cup {Signed(v, n) : v \in IntVals, n \in Widths \ {0}}

InitIntegers ==
    \E seed \in IntSeeds :
        /\ InitSignals([s \in Sig |->
                           [cls  |-> "Signal",
                            seed |-> IF s = 1 THEN seed ELSE Wire(0),
                            ppl  |-> 1]],
                       IntOps)
        /\ SimpleSimClass(cycle_limit_default, None, <<>>, <<>>)

NextIntegers ==
    \/ \E v \in IntVals : SetNxt(1, Unsigned(v, MaxBits))
    \/ \E v \in IntVals : IlshiftNxt(1, PyInt(v))
    \/ \E v \in IntVals : NxtSetVal(1, v)
    \/ \E hi, lo \in Widths : \E y \in IntVals : NxtSetItem(1, hi, lo, y)
    \/ \E key \in 0 .. (MaxBits - 1) : \E b \in {0, 1} : NxtSetIndex(1, key, b)
    \/ \E how \in Resizings : \E n \in 0 .. Pow2(MaxBits) : NxtResize(1, how, n)
    \/ \E hi, lo \in Widths : \E y \in IntVals : SigSetItem(1, hi, lo, y)
    \/ Update

SpecIntegers == InitIntegers /\ [][NextIntegers]_vars

\* the integers of [-2^(n-1), 2^(n-1) - 1]: none for n = 0
SignedRange(n) ==
    {r \in (0 - Pow2(n)) .. Pow2(n) : 2 * r >= 0 - Pow2(n) /\ 2 * r <= Pow2(n) - 2}

UnsignedRange(n) == 0 .. (Pow2(n) - 1)

Congruent(a, b, n) == (a - b) % Pow2(n) = 0

\* r is what the assignment of the integer v to x is stated to leave
AssignedAsStated(x, v, r) ==
    IF x.kind = "Unsigned"
    THEN r.val = v % Pow2(x.nbits)
    ELSE r.val \in SignedRange(x.nbits) /\ Congruent(r.val, v, x.nbits)

\* the step assigns the integer v to the pending value of signal 1
IntAssigned(v) ==
    /\ Called("ilshift")
    /\ last'.f = 1
    /\ last'.val = PyInt(v)
    /\ FirstNext(cells, content, 1).kind \in {"Unsigned", "Signed"}

C22_WitnessZeroWidth ==
    /\ last.op = "ilshift"
    /\ last.val = PyInt(5)
    /\ last.err = "none"
    /\ FirstNext(cells, content, 1) = Unsigned(0, 0)

\* the scalar of an Unsigned or Signed value lies in the range of its nbits
InRange(x) ==
    /\ x.kind = "Unsigned" => x.val \in UnsignedRange(x.nbits)
    /\ x.kind = "Signed" => x.val \in SignedRange(x.nbits)

\* C23: after any sequence of mutations of an Unsigned or Signed value
\* (construction, writing the scalar through val, assign / <<=, slice
\* write, resizing through bits, span or upto) the stored value lies
\* within the range of its current nbits
C23_ValueWithinRange ==
    \A i \in 1 .. Len(cells[content[1]]) :
        /\ InRange(cells[content[1]][i].next)
        /\ InRange(cells[content[1]][i].obj)

\* bit j of a two's complement integer
Bit(v, j) == (v \div Pow2(j)) % 2

\* the step is s.nxt[hi:lo] = y on the Unsigned or Signed pending value
\* of signal 1, which holds a value of its range
SliceWritten(hi, lo, y) ==
    /\ Called("nxt_setitem")
    /\ last'.f = 1
    /\ last'.hi = hi
    /\ last'.lo = lo
    /\ last'.val = PyInt(y)
    /\ FirstNext(cells, content, 1).kind \in {"Unsigned", "Signed"}
    /\ InRange(FirstNext(cells, content, 1))

\* C24: for an Unsigned or Signed value x of width w, 0 <= lo <= hi <= w
\* and an integer y, writing x[hi:lo] = y and then reading x[hi:lo]
\* returns y mod 2^(hi-lo), and every bit of x outside [lo, hi) is as
\* before the write
C24_SliceRoundTrip ==
    [][\A hi, lo \in Widths : \A y \in IntVals :
          (/\ SliceWritten(hi, lo, y)
           /\ lo <= hi
           /\ hi <= FirstNext(cells, content, 1).nbits) =>
              LET x    == FirstNext(cells, content, 1)
                  r    == FirstNext(cells', content', 1)
                  back == getitem(r, hi, lo)
              IN  /\ last'.err = "none"
                  /\ back.err = "none"
                  /\ back.val.val = y % Pow2(hi - lo)
                  /\ \A j \in (0 .. (x.nbits - 1)) \ (lo .. (hi - 1)) :
                        Bit(r.val, j) = Bit(x.val, j)]_vars

\* ---------------------------------------------------------------------------
\* A chain of combinational processes under SimpleSim.run
\* ---------------------------------------------------------------------------

\* longest chain: stage p writes signal p, the chain's input is the signal
\* after the last stage
MaxChain == NSig - 1

\* what the _run of a stage is, x being the signal numbered one higher:
\*   "follow"  a plain method:  self.s.nxt <<= self.x.now
\*   "negate"  a plain method:  self.s.nxt <<= ~self.x.now
StageKinds == {"follow", "negate"}
up(p) == p + 1

\* the chain's input: the signal the last stage (the dut) reads
chain_input == up(dut)

\* the design: the dut is the last stage and holds each other stage in
\* one attribute
ChainHierarchy(n) == [e \in 1 .. n |-> IF e = n THEN [i \in 1 .. n - 1 |-> i] ELSE <<>>]

InitChain ==
    \E n \in 1 .. MaxChain, path \in VcdPaths :
        \E es \in [1 .. n -> StageKinds], seed \in [Sig -> {Wire(0), Wire(1)}] :
            /\ InitSignals([s \in Sig |-> [cls |-> "Signal", seed |-> seed[s], ppl |-> 1]], 1)
            /\ SimpleSimClass(cycle_limit_default, path, es, ChainHierarchy(n))

\* the test bench writes the chain's input before it calls run
ChainInput(v) ==
    /\ run_pc = "idle"
    /\ IlshiftNxt(chain_input, v)

\* the value a stage stages from its source
stage_value(kind, x) == IF kind = "negate" THEN Invert(x) ELSE x

\* a stage's _run; an exception leaves run
ResumeStage(p) ==
    LET r == nxt_ilshift(cells, content, own(p),
                         stage_value(entities[p], now(cells, content, up(p))))
    IN  /\ run_pc = "run"
        /\ run_pos <= Len(run_order)
        /\ run_order[run_pos] = p
        /\ entities[p] \in StageKinds
        /\ cells' = r.cells
        /\ run_err' = r.err
        /\ run_pc' = IF r.err = "none" THEN "run" ELSE "raised"
        /\ run_pos' = run_pos + 1
        /\ UNCHANGED <<stop_simulation, time_ps, event_times, force_run, proc, count,
                       callvars, graphvars, flagvars, confvars>>

NextChain ==
    \/ \E v \in {Wire(0), Wire(1)} : ChainInput(v)
    \/ SimStart
    \/ \E p \in 1 .. MaxChain : ResumeStage(p)
    \/ SimPass
    \/ \E pressed \in BOOLEAN : SimAdvance(pressed)
    \/ SimFlush

SpecChain == InitChain /\ [][NextChain]_vars

\* run is sequential code: whenever it has a next step it takes it
SpecChainFair == InitChain /\ [][NextChain]_vars /\ WF_vars(NextChain)

\* the bit stage p outputs for the input's current value
RECURSIVE chain_function(_)
chain_function(p) ==
    IF p = chain_input
    THEN now(cells, content, chain_input).val
    ELSE IF entities[p] = "negate"
         THEN 1 - chain_function(up(p))
         ELSE chain_function(up(p))

\* C25: for a chain of n combinational processes without pipelining and
\* without feedback, after a change of the chain's input the convergence
\* loop reaches a pass with updated == 0 after at most n + 1
\* value-changing passes, and at that fixpoint every stage output equals
\* the function of the input it computes
C25_ChainSettles ==
    /\ [](run_err # CycleError)
    /\ [](run_pc = "settled" =>
             /\ count <= dut + 1
             /\ \A p \in 1 .. dut : now(cells, content, own(p)).val = chain_function(p))
    /\ <>(run_pc = "settled")

\* the longest chain, settled after n + 1 value-changing passes that
\* followed a write of its input
C25_Witness ==
    /\ run_pc = "settled"
    /\ dut = MaxChain
    /\ count = dut + 1
    /\ last.op = "ilshift"
    /\ last.f = chain_input

\* ---------------------------------------------------------------------------
\* A counter clocked by ClockGen under SimpleSim.run
\* ---------------------------------------------------------------------------

\* calls of wait explored in the clock process (two for each period), the
\* moduli of the counter, and half a period in picoseconds
MaxTicks == 34
Moduli == {2, 3, 16}
half_period == 1

\* the signals: ClockGen.clk, a Wire, and the counter, a 4 bit Unsigned
clk == 1
counter == 2
CounterBits == 4

\* the entities of the design:
\*   ClockGen   @procedure _run:  while True:
\*                  self.clk.nxt <<= 1;  yield from wait(self.period / 2)
\*                  self.clk.nxt <<= 0;  yield from wait(self.period / 2)
\*   Counter    @procedure _run:  while True:
\*                  yield from posedge(clk)
\*                  counter.nxt <<= (int(counter.now) + 1) % modulus
ClockGen == [kind |-> "ClockGen", modulus |-> 0]
Counter(m) == [kind |-> "Counter", modulus |-> m]

\* the dut is the second entity and holds the first in one attribute, or
\* in two
ClockHierarchies ==
    { [e \in 1 .. 2 |-> IF e = 2 THEN held ELSE <<>>] : held \in {<<1>>, <<1, 1>>} }

InitClock ==
    \E m \in Moduli, path \in VcdPaths, at \in ClockHierarchies :
        \E es \in {<<ClockGen, Counter(m)>>, <<Counter(m), ClockGen>>} :
            /\ InitSignals([s \in Sig |->
                               [cls  |-> "Signal",
                                seed |-> IF s = counter THEN Unsigned(0, CounterBits) ELSE Wire(0),
                                ppl  |-> 1]], 0)
            /\ SimpleSimClass(cycle_limit_default, path, es, at)

\* the entity of kind k that dut.run() resumes next
ResumingKind(p, k) ==
    /\ run_pc = "run"
    /\ run_pos <= Len(run_order)
    /\ run_order[run_pos] = p
    /\ entities[p].kind = k

\* ClockGen._run from its start, or from a wait whose target is the
\* clock's time, to the next wait: the level of this half period is
\* written, and wait schedules the wake-up and forces one more pass
ResumeClock(p) ==
    LET level       == IF proc[p].waits % 2 = 0 THEN 1 ELSE 0
        r           == nxt_ilshift(cells, content, clk, PyInt(level))
        target_time == time_ps + half_period
    IN  /\ ResumingKind(p, "ClockGen")
        /\ \/ proc[p].st = "new"
           \/ proc[p].st = "waiting" /\ time_ps = proc[p].target
        /\ proc[p].waits < MaxTicks
        /\ cells' = r.cells
        /\ event_times' = schedule_event(event_times, target_time)
        /\ force_run' = TRUE
        /\ proc' = [proc EXCEPT ![p] = [st |-> "waiting", target |-> target_time,
                                        waits |-> proc[p].waits + 1,
                                        edge |-> "none", fault |-> "none"]]
        /\ run_pos' = run_pos + 1
        /\ UNCHANGED <<stop_simulation, time_ps, run_pc, count, run_err,
                       callvars, graphvars, flagvars, confvars>>

\* ClockGen._run inside wait before its target (line 158), and the end of
\* the exploration of the clock after MaxTicks waits
ClockYields(p) ==
    /\ ResumingKind(p, "ClockGen")
    /\ \/ proc[p].st = "waiting" /\ time_ps # proc[p].target
       \/ proc[p].st = "done"
       \/ proc[p].st = "waiting" /\ proc[p].waits = MaxTicks
    /\ proc' = IF proc[p].st = "waiting" /\ time_ps = proc[p].target
               THEN [proc EXCEPT ![p].st = "done"]
               ELSE proc
    /\ run_pos' = run_pos + 1
    /\ UNCHANGED <<stop_simulation, time_ps, event_times, force_run, run_pc,
                   count, run_err, cells, callvars, graphvars, flagvars, confvars>>

\* Counter._run: from its start to posedge(clk), which forces one more
\* pass and yields; inside posedge, it yields again unless clk.posedge()
\* (line 165), and with the edge it writes the counter and enters posedge
\* anew
ResumeCounter(p) ==
    LET released == proc[p].st = "edge" /\ edge_holds("posedge", clk)
        r == nxt_ilshift(cells, content, counter,
                         PyInt((now(cells, content, counter).val + 1) % entities[p].modulus))
    IN  /\ ResumingKind(p, "Counter")
        /\ cells' = IF released THEN r.cells ELSE cells
        /\ force_run' = IF released \/ proc[p].st = "new" THEN TRUE ELSE force_run
        /\ proc' = [proc EXCEPT ![p].st = "edge", ![p].edge = "posedge"]
        /\ run_pos' = run_pos + 1
        /\ UNCHANGED <<stop_simulation, time_ps, event_times, run_pc, count, run_err,
                       callvars, graphvars, flagvars, confvars>>

NextClock ==
    \/ SimStart
    \/ \E p \in DOMAIN entities : ResumeClock(p)
    \/ \E p \in DOMAIN entities : ClockYields(p)
    \/ \E p \in DOMAIN entities : ResumeCounter(p)
    \/ SimPass
    \/ \E pressed \in BOOLEAN : SimAdvance(pressed)
    \/ SimFlush

SpecClock == InitClock /\ [][NextClock]_vars

\* the entities of the design by what they are
clock_entity == CHOOSE p \in 1 .. Len(entities) : entities[p].kind = "ClockGen"
counter_entity == CHOOSE p \in 1 .. Len(entities) : entities[p].kind = "Counter"

\* rising edges written so far: the clock writes 1 before every odd wait
RisingEdges == (proc[clock_entity].waits + 1) \div 2

\* C26: with a Wire clock toggled by a clock process through wait and a
\* process that on each posedge of the clock writes
\* counter.nxt <<= (counter.now + 1) mod M into a 4 bit Unsigned counter
\* starting at 0, the counter's current value at the fixpoint that follows
\* the N-th rising edge is N mod M; that fixpoint is reached, the
\* convergence loop never meets its cycle limit
C26_CounterCountsEdges ==
    /\ run_err # CycleError
    /\ run_pc = "settled" =>
           now(cells, content, counter).val = RisingEdges % entities[counter_entity].modulus

\* the 17th rising edge has taken a counter modulo 16 through its wrap
C26_Witness ==
    /\ run_pc = "settled"
    /\ RisingEdges = 17
    /\ entities[counter_entity].modulus = 16
    /\ now(cells, content, counter).val = 1
    /\ now(cells, content, clk).val = 1

\* ---------------------------------------------------------------------------
\* A pipelined signal written through the setter and through the getter
\* ---------------------------------------------------------------------------

PplBits == 2
PplOps == MaxOps
PplVals == 0 .. (Pow2(PplBits) - 1)

InitPipeline ==
    /\ InitSignals([s \in Sig |->
                       [cls  |-> "Signal",
                        seed |-> IF s = 1 THEN Unsigned(0, PplBits) ELSE Wire(0),
                        ppl  |-> IF s = 1 THEN MaxPpl ELSE 1]],
                   PplOps)
    /\ SimpleSimClass(cycle_limit_default, None, <<>>, <<>>)

NextPipeline ==
    \/ \E v \in PplVals : SetNxt(1, Unsigned(v, PplBits))
    \/ \E v \in PplVals : IlshiftNxt(1, PyInt(v))
    \/ \E v \in PplVals : NxtSetVal(1, v)
    \/ \E v \in PplVals : NxtSetItem(1, PplBits, 0, v)
    \/ Update

SpecPipeline == InitPipeline /\ [][NextPipeline]_vars

\* C27: for a signal of pipeline depth n, in every pass in which the
\* signal has a pending write, whether staged by assigning nxt or by
\* mutating the object returned by reading nxt, every cell i > 0 receives
\* the pre-commit current value of cell i-1
C27_PipelineShifts ==
    [][(Called("update") /\ cells[content[1]][1].pend) =>
          \A i \in 2 .. Len(cells[content[1]]) :
              cells'[content[1]][i].obj = cells[content[1]][i - 1].obj]_vars

\* C28: a connect call never recurses without bound, connecting a signal
\* to itself or a driver to one of its own followers included, and after
\* every successful connect the driver relation is acyclic
C28_ConnectEndsAcyclic ==
    [][Called("connect") =>
          /\ last'.err # "RecursionError"
          /\ last'.err = "none" => Acyclic']_vars

\* the errors a connect call raises by its own tests
ConnectErrors == {"MultipleDriverViolation", "TypeIncompatibility", "DirectionViolation"}

\* every direct or indirect follower of f shares the storage of f
FollowersRepointed(f) ==
    \A s \in Sig : Reaches(s, f, NSig) => content[s] = content[f]

\* C29: a connect call is all-or-nothing: when it raises
\* MultipleDriverViolation, TypeIncompatibility or DirectionViolation
\* (also while a follower is being repointed) every signal's driver
\* reference, follower list and storage are as before the call, and when
\* it succeeds all direct and indirect followers have been repointed
C29_ConnectAllOrNothing ==
    [][Called("connect") =>
          /\ last'.err \in ConnectErrors =>
                /\ content' = content
                /\ s_driver' = s_driver
                /\ s_drives' = s_drives
          /\ last'.err = "none" =>
                \A f \in Sig : last'.f = f => FollowersRepointed(f)']_vars

\* C30: a signal's current value (now) and its edge flags change only
\* inside Signal.update: no write issued on a signal between two commits
\* (assignment to nxt, <<=, slice assignment on the pending value or on
\* the signal itself) alters any signal's current value
C30_NowChangesOnlyInUpdate ==
    [][~Called("update") =>
          /\ \A s \in Sig : now(cells', content', s) = now(cells, content, s)
          /\ UNCHANGED <<s_changed, s_posedge, s_negedge, s_transition>>]_vars

\* the step is s.nxt[i] = b on the Unsigned pending value of signal 1,
\* which holds a value of its range
IndexWritten(i, b) ==
    /\ Called("nxt_setindex")
    /\ last'.f = 1
    /\ last'.hi = i
    /\ last'.val = PyInt(b)
    /\ FirstNext(cells, content, 1).kind = "Unsigned"
    /\ InRange(FirstNext(cells, content, 1))

\* C31: for an Unsigned value x of width w, an index 0 <= i < w and a bit
\* b, after x[i] = b reading x[i] returns b, and every other bit of x is
\* as before the write
C31_IndexRoundTrip ==
    [][\A i \in 0 .. (MaxBits - 1) : \A b \in {0, 1} :
          (IndexWritten(i, b) /\ i < FirstNext(cells, content, 1).nbits) =>
              LET x    == FirstNext(cells, content, 1)
                  r    == FirstNext(cells', content', 1)
                  back == getitem_index(r, i)
              IN  /\ last'.err = "none"
                  /\ back.err = "none"
                  /\ back.val.val = b
                  /\ \A j \in (0 .. (x.nbits - 1)) \ {i} : Bit(r.val, j) = Bit(x.val, j)]_vars

\* C32: with the default configuration (vcd_path = None) SimpleSim.run
\* returns normally once a time point's fixpoint is reached with no
\* wake-up time left, or after a stop request: the end of the simulation
\* never fails because no waveform file is open
C32_RunEndsWithoutWaveform ==
    [][(vcd_path = None /\ run_pc = "flush") =>
          (run_pc' = "ended" /\ run_err' = run_err)]_vars

====
